---- MODULE Spec2Model ----
(***************************************************************************)
(* droneguard-fastapi: the capture / publish / stream pipeline.            *)
(*                                                                         *)
(*   app/services/video_capture.py   VideoCaptureService                   *)
(*   app/services/stream_service.py  StreamService                         *)
(*                                                                         *)
(* One state machine.  HTTP request threads ("callers") run start() and    *)
(* stop() statement by statement, every threading.Thread that start()      *)
(* spawns runs _capture_loop statement by statement, and every stream      *)
(* session runs one of the two frame generators.  The outcomes of the      *)
(* OpenCV calls (cap.read, cv2.imencode) and of the detector are inputs.   *)
(***************************************************************************)
EXTENDS Naturals, Integers, Sequences, FiniteSets, TLC

\* ------------------------------------------------------------- bounds
\* Frames the source can deliver (a file's length; a cap on live reads).
MaxFrames == 2
\* threading.Thread objects start() may create in one run.
MaxThreads == 2
\* start()/stop() calls made in one run.
MaxCalls == 3
\* Iterations a stream session counts (the count saturates here).
IterCap == 2
\* Clock ticks the work of one capture cycle can take (a slow cycle takes
\* more than FrameTime).
MaxElapsed == 3

Callers  == {"a", "b"}
Threads  == 1..MaxThreads
Sessions == {"s", "r"}

\* ------------------------------------------------------------- values
NoFrame == <<>>          \* Python None in latest_frame / a generator's frame
NoThread == 0            \* Python None in capture_thread
Free == <<>>             \* frame_lock not held

\* A frame is a buffer of two pixels; a pixel carries the index of the read
\* that produced it and whether the detector drew on it.
RawFrame(id) == << <<id, "raw">>, <<id, "raw">> >>
Boxed(f) == << <<f[1][1], "box">>, <<f[2][1], "box">> >>
\* The read a frame's first pixel comes from.
ReadOf(f) == f[1][1]

LoopOwner(t) == <<"loop", t>>
SessOwner(s) == <<"sess", s>>

VARIABLES
    source,          \* "file" (self.source is a str) or "live" (an int)
    detector,        \* "none" or "attached" (self.detector)
    cap,             \* self.cap: "unopened", "failed", "open" or "released"
    delivered,       \* frames the source has delivered so far
    latest_frame,    \* self.latest_frame
    frame_lock,      \* owner of self.frame_lock, or Free
    is_running,      \* self.is_running
    capture_thread,  \* self.capture_thread: a thread index or NoThread
    created,         \* Thread objects created so far
    thr,             \* per loop thread: position and locals
    clr,             \* per caller: position inside start()/stop(), who called
    ses,             \* per stream session: position and locals
    calls,           \* start()/stop() calls made so far
    hist             \* history kept for the properties

vars == << source, detector, cap, delivered, latest_frame, frame_lock,
           is_running, capture_thread, created, thr, clr, ses, calls, hist >>

\* ------------------------------------------------------------- helpers
StartPcs == {"start_check", "start_set", "start_create", "start_thread"}
StopPcs  == {"stop_clear", "stop_alive", "stop_eval", "stop_join", "stop_release"}

\* Thread.is_alive(): started and not yet finished.
IsAlive(t) == t # NoThread /\ thr[t].pc \notin {"unborn", "created", "done"}

\* A loop thread that is inside `while self.is_running:` (lines 88-117).
InLoop(t) == thr[t].pc \in {"test", "read", "detect", "lock", "publish", "pace"}
LiveLoops == {t \in Threads : IsAlive(t)}

\* lines 127-129: is_active() returns the flag.
is_active == is_running

InFlight(c) == clr[c].pc # "idle"
OthersInFlight(c) == \E d \in Callers \ {c} : InFlight(d)

\* ------------------------------------------------------------- Init
\* The state __init__ leaves (lines 15-29): the source opened, nothing cached,
\* not running, no thread.  main.py attaches a detector; the service also runs
\* without one.
\* The state after construction; `followed` is the set of sessions whose
\* reads the history keeps (hist.got).
InitFollowing(followed) ==
    /\ source \in {"file", "live"}
    /\ detector \in {"none", "attached"}
    /\ cap = "open"
    /\ delivered = 0
    /\ latest_frame = NoFrame
    /\ frame_lock = Free
    /\ is_running = FALSE
    /\ capture_thread = NoThread
    /\ created = 0
    /\ thr = [t \in Threads |->
                [pc |-> "unborn", frame |-> NoFrame,
                 failed |-> FALSE, err |-> FALSE, detfail |-> FALSE,
                 elapsed |-> 0]]
    /\ clr = [c \in Callers |->
                [pc |-> "idle", target |-> NoThread, ret |-> "idle",
                 seen |-> FALSE, message |-> "",
                 reply |-> << >>]]
    /\ ses = [s \in Sessions |->
                [pc |-> "closed", kind |-> "sync", frame |-> NoFrame,
                 buf |-> NoFrame, chunk |-> <<>>, iter |-> 0,
                 none |-> FALSE, encfail |-> FALSE, alias |-> FALSE]]
    /\ calls = 0
    /\ hist = [published |-> {}, seq |-> "none", overlap |-> FALSE,
               openAtStop |-> {}, order |-> << >>,
               got |-> [s \in followed |-> 0]]

Init == InitFollowing({})

\* ------------------------------------------------------------- start()
\* start() that never finds the service running.
AlreadyRunning_Never == FALSE
\* line 63: `if self.is_running:`
AlreadyRunning == is_running

\* Where a call of start()/stop() goes back to: a direct caller ("idle"), the
\* route handler that answers the request ("route"), or the end of the
\* application ("down").
Return(c, normal, raised) ==
    IF clr[c].ret = "route" THEN (IF raised THEN "route_failed" ELSE normal)
    ELSE clr[c].ret

\* A caller enters start().  hist.seq follows runs of start() calls made one
\* after the other, the first from an idle service, with no stop() between.
\* ret is where the call returns to, seen what its caller read from
\* is_active() before calling.
EnterStart(c, ret, seen) ==
    /\ clr[c].pc = "idle"
    /\ calls < MaxCalls
    /\ created + Cardinality({d \in Callers : clr[d].pc \in StartPcs}) < MaxThreads
    /\ calls' = calls + 1
    /\ clr' = [clr EXCEPT ![c] = [pc |-> "start_check", target |-> NoThread,
                                  ret |-> ret, seen |-> seen, message |-> "",
                                  reply |-> << >>]]
    /\ hist' = [hist EXCEPT
                  !.seq = IF OthersInFlight(c) THEN "none"
                          ELSE IF hist.seq = "none" /\ LiveLoops = {} /\ ~is_running
                                 THEN "first"
                          ELSE IF hist.seq \in {"one", "two"} THEN "second"
                          ELSE "none",
                  !.overlap = hist.overlap
                              \/ \E d \in Callers \ {c} : clr[d].pc \in StopPcs]
    /\ UNCHANGED << source, detector, cap, delivered, latest_frame, frame_lock,
                    is_running, capture_thread, created, thr, ses >>

\* start() called directly on the service.
StartCall(c) == EnterStart(c, "idle", FALSE)

StartReturned(h) ==
    [h EXCEPT !.seq = IF h.seq = "first" THEN "one"
                      ELSE IF h.seq = "second" THEN "two" ELSE h.seq]

\* lines 63-65: already running: warn and return.
StartCheck(c) ==
    /\ clr[c].pc = "start_check"
    /\ IF AlreadyRunning
         THEN /\ clr' = [clr EXCEPT ![c].pc = Return(c, "start_reply", FALSE)]
              /\ hist' = StartReturned(hist)
         ELSE /\ clr' = [clr EXCEPT ![c].pc = "start_set"]
              /\ hist' = hist
    /\ UNCHANGED << source, detector, cap, delivered, latest_frame, frame_lock,
                    is_running, capture_thread, created, thr, ses, calls >>

\* line 67: self.is_running = True
StartSet(c) ==
    /\ clr[c].pc = "start_set"
    /\ is_running' = TRUE
    /\ clr' = [clr EXCEPT ![c].pc = "start_create"]
    /\ UNCHANGED << source, detector, cap, delivered, latest_frame, frame_lock,
                    capture_thread, created, thr, ses, calls, hist >>

\* line 68: self.capture_thread = threading.Thread(target=self._capture_loop)
StartCreate(c) ==
    /\ clr[c].pc = "start_create"
    /\ created' = created + 1
    /\ capture_thread' = created + 1
    /\ thr' = [thr EXCEPT ![created + 1].pc = "created"]
    /\ clr' = [clr EXCEPT ![c].pc = "start_thread"]
    /\ UNCHANGED << source, detector, cap, delivered, latest_frame, frame_lock,
                    is_running, ses, calls, hist >>

\* lines 69-70: self.capture_thread.start().  The attribute is read again, so
\* after a concurrent start() it may name a thread that was already started;
\* Thread.start() then raises RuntimeError to this caller.
StartThread(c) ==
    /\ clr[c].pc = "start_thread"
    /\ thr' = IF thr[capture_thread].pc = "created"
                THEN [thr EXCEPT ![capture_thread].pc = "test"]
                ELSE thr
    /\ clr' = [clr EXCEPT ![c].pc = Return(c, "start_reply",
                                           thr[capture_thread].pc # "created")]
    /\ hist' = StartReturned(hist)
    /\ UNCHANGED << source, detector, cap, delivered, latest_frame, frame_lock,
                    is_running, capture_thread, created, ses, calls >>

\* ------------------------------------------------------------- stop()
EnterStop(c, ret, seen) ==
    /\ clr[c].pc = "idle"
    /\ calls < MaxCalls
    /\ calls' = calls + 1
    /\ clr' = [clr EXCEPT ![c] = [pc |-> "stop_clear", target |-> NoThread,
                                  ret |-> ret, seen |-> seen, message |-> "",
                                  reply |-> << >>]]
    /\ hist' = [hist EXCEPT
                  !.seq = "none",
                  !.overlap = hist.overlap
                              \/ \E d \in Callers \ {c} : clr[d].pc \in StartPcs]
    /\ UNCHANGED << source, detector, cap, delivered, latest_frame, frame_lock,
                    is_running, capture_thread, created, thr, ses >>

\* stop() called directly on the service.
StopCall(c) == EnterStop(c, "idle", FALSE)

\* line 74: self.is_running = False
StopClear(c) ==
    /\ clr[c].pc = "stop_clear"
    /\ is_running' = FALSE
    /\ clr' = [clr EXCEPT ![c].pc = "stop_alive"]
    /\ UNCHANGED << source, detector, cap, delivered, latest_frame, frame_lock,
                    capture_thread, created, thr, ses, calls, hist >>

\* line 76: `if self.capture_thread and self.capture_thread.is_alive():`
StopAlive(c) ==
    /\ clr[c].pc = "stop_alive"
    /\ clr' = [clr EXCEPT ![c].pc = IF IsAlive(capture_thread)
                                      THEN "stop_eval" ELSE "stop_release"]
    /\ UNCHANGED << source, detector, cap, delivered, latest_frame, frame_lock,
                    is_running, capture_thread, created, thr, ses, calls, hist >>

\* line 77: self.capture_thread is read again for the join.
StopEval(c) ==
    /\ clr[c].pc = "stop_eval"
    /\ clr' = [clr EXCEPT ![c].pc = "stop_join", ![c].target = capture_thread]
    /\ UNCHANGED << source, detector, cap, delivered, latest_frame, frame_lock,
                    is_running, capture_thread, created, thr, ses, calls, hist >>

\* line 77: join(timeout=2.0) returns because the thread ended (a thread that
\* was never started cannot be joined: RuntimeError, which leaves stop()) ...
StopJoined(c) ==
    /\ clr[c].pc = "stop_join"
    /\ thr[clr[c].target].pc \in {"done", "created"}
    /\ clr' = [clr EXCEPT ![c].pc = IF thr[clr[c].target].pc = "done"
                                      THEN "stop_release"
                                      ELSE Return(c, "stop_reply", TRUE),
                          ![c].target = NoThread]
    /\ UNCHANGED << source, detector, cap, delivered, latest_frame, frame_lock,
                    is_running, capture_thread, created, thr, ses, calls, hist >>

\* A join without a timeout: it returns only when the thread has ended.
StopJoinTimeout_Never(c) ==
    /\ clr[c].pc = "stop_join"
    /\ IsAlive(clr[c].target)
    /\ FALSE
    /\ UNCHANGED vars

\* ... or because the two seconds passed while the thread was still running.
StopJoinTimeout(c) ==
    /\ clr[c].pc = "stop_join"
    /\ IsAlive(clr[c].target)
    /\ clr' = [clr EXCEPT ![c].pc = "stop_release", ![c].target = NoThread]
    /\ UNCHANGED << source, detector, cap, delivered, latest_frame, frame_lock,
                    is_running, capture_thread, created, thr, ses, calls, hist >>

\* A stop() that also empties the cache slot.
StopRelease_ClearsSlot(c) ==
    /\ clr[c].pc = "stop_release"
    /\ cap' = "released"
    /\ latest_frame' = NoFrame
    /\ clr' = [clr EXCEPT ![c].pc = Return(c, "stop_reply", FALSE)]
    /\ hist' = [hist EXCEPT !.openAtStop = @ \cup {s \in Sessions :
                                 ses[s].pc \notin {"closed", "ended"}}]
    /\ UNCHANGED << source, detector, delivered, frame_lock,
                    is_running, capture_thread, created, thr, ses, calls >>

\* lines 79-82: self.cap is never None after __init__: release it and return.
StopRelease(c) ==
    /\ clr[c].pc = "stop_release"
    /\ cap' = "released"
    /\ clr' = [clr EXCEPT ![c].pc = Return(c, "stop_reply", FALSE)]
    /\ hist' = [hist EXCEPT !.openAtStop = @ \cup {s \in Sessions :
                                 ses[s].pc \notin {"closed", "ended"}}]
    /\ UNCHANGED << source, detector, delivered, latest_frame, frame_lock,
                    is_running, capture_thread, created, thr, ses, calls >>

\* ------------------------------------------------------------- routers/video.py
\* The handlers are coroutines without an await: the event loop runs one
\* request to its answer before it takes the next, so one caller stands for
\* all requests.  The capture loop runs beside them in its own thread.

\* A /start that calls start() whatever is_active() says.
RouteStartCalls_Always(active) == TRUE
\* video.py line 56: `if not video_service.is_active():`
RouteStartCalls(active) == ~active

\* video.py line 72: `if video_service.is_active():`
RouteStopCalls(active) == active

\* POST /start, video.py lines 50-60: read is_active(); call start() (line 57)
\* or answer at once (line 60).  Requests are served once the startup of
\* main.py line 66 has run.
RouteStart(c) ==
    /\ calls > 0
    /\ clr[c].pc = "idle"
    /\ IF RouteStartCalls(is_active)
         THEN EnterStart(c, "route", is_active)
         ELSE /\ clr' = [clr EXCEPT ![c].seen = is_active,
                                    ![c].message = "Video capture already running"]
              /\ UNCHANGED << source, detector, cap, delivered, latest_frame,
                              frame_lock, is_running, capture_thread, created,
                              thr, ses, calls, hist >>

\* video.py lines 58, 61-64: start() has returned, answer; an exception out of
\* start() becomes the 500 answer.
RouteStartReply(c) ==
    /\ clr[c].ret = "route"
    /\ clr[c].pc \in {"start_reply", "route_failed"}
    /\ clr' = [clr EXCEPT ![c].pc = "idle", ![c].ret = "idle",
                          ![c].message = IF clr[c].pc = "start_reply"
                                           THEN "Video capture started"
                                           ELSE "500"]
    /\ UNCHANGED << source, detector, cap, delivered, latest_frame, frame_lock,
                    is_running, capture_thread, created, thr, ses, calls, hist >>

\* POST /stop, video.py lines 66-76: read is_active(); call stop() (line 73)
\* or answer at once (line 76).
RouteStop(c) ==
    /\ calls > 0
    /\ clr[c].pc = "idle"
    /\ IF RouteStopCalls(is_active)
         THEN EnterStop(c, "route", is_active)
         ELSE /\ clr' = [clr EXCEPT ![c].seen = is_active,
                                    ![c].message = "Video capture not running"]
              /\ UNCHANGED << source, detector, cap, delivered, latest_frame,
                              frame_lock, is_running, capture_thread, created,
                              thr, ses, calls, hist >>

\* video.py lines 74, 77-80: stop() has returned, answer.
RouteStopReply(c) ==
    /\ clr[c].ret = "route"
    /\ clr[c].pc = "stop_reply"
    /\ clr' = [clr EXCEPT ![c].pc = "idle", ![c].ret = "idle",
                          ![c].message = "Video capture stopped"]
    /\ UNCHANGED << source, detector, cap, delivered, latest_frame, frame_lock,
                    is_running, capture_thread, created, thr, ses, calls, hist >>

\* A constructor that takes every source for opened.
OpenFailed_Never(opened) == FALSE
\* video_capture.py line 37: `if not self.cap.isOpened():`
OpenFailed(opened) == ~opened

\* main.py lines 45-51 with video_capture.py lines 13-54: the application
\* constructs the service, which opens the source; when the source did not
\* open, RuntimeError leaves the constructor (lines 38, 52-54) and the startup
\* (main.py lines 70-72): nothing is started and nothing is served.
Construct(c) ==
    /\ clr[c].pc = "boot"
    /\ \E opened \in BOOLEAN :
         /\ cap' = IF opened THEN "open" ELSE "failed"
         /\ clr' = [clr EXCEPT ![c].pc = IF OpenFailed(opened)
                                           THEN "boot_failed" ELSE "idle"]
    /\ UNCHANGED << source, detector, delivered, latest_frame, frame_lock,
                    is_running, capture_thread, created, thr, ses, calls, hist >>

\* main.py line 66: the application starts the capture before it serves.
LifespanStart(c) ==
    /\ calls = 0
    /\ EnterStart(c, "idle", FALSE)

\* main.py lines 76-80: at shutdown the application calls stop(), whatever the
\* state of the service; nothing is served afterwards.
LifespanStop(c) ==
    /\ calls > 0
    /\ EnterStop(c, "down", FALSE)

\* ------------------------------------------------------------- _capture_loop
\* A loop that takes every source for a camera, or every source for a file.
IsFileSource_Never == FALSE
IsFileSource_Always == TRUE
\* line 95: `isinstance(self.source, str)`: the source is a video file.
IsFileSource == source = "file"

\* A critical section entered without waiting for the lock.
LockFree_Ignored == TRUE
\* frame_lock can be acquired (lines 106, 124: `with self.frame_lock:`).
LockFree == frame_lock = Free

\* ndarray.copy(): a new buffer with the same pixels.
CopyFrame(f) == [i \in 1..Len(f) |-> f[i]]

\* A loop that never looks at the flag.
LoopTest_IgnoresFlag(t) ==
    /\ thr[t].pc = "test"
    /\ thr' = [thr EXCEPT ![t].pc = "read", ![t].elapsed = 0]
    /\ UNCHANGED << source, detector, cap, delivered, latest_frame, frame_lock,
                    is_running, capture_thread, created, clr, ses, calls, hist >>

\* line 86: frame_time = 1.0 / self.fps, in clock ticks.
FrameTime == 2

\* lines 110-113: sleep_time = frame_time - elapsed, slept only when positive;
\* the value is the time the cycle sleeps.
SleepTime(elapsed) ==
    LET sleep_time == FrameTime - elapsed
    IN  IF sleep_time > 0 THEN sleep_time ELSE 0

\* The clock moves while a thread is inside a cycle: thr[t].elapsed is
\* time.time() - start_time of that thread.
InCycle(t) == thr[t].pc \in {"read", "detect", "lock", "publish", "pace"}
Tick(t) ==
    /\ InCycle(t)
    /\ thr[t].elapsed < MaxElapsed
    /\ thr' = [thr EXCEPT ![t].elapsed = @ + 1]
    /\ UNCHANGED << source, detector, cap, delivered, latest_frame, frame_lock,
                    is_running, capture_thread, created, clr, ses, calls, hist >>

\* lines 88-89: the while test; a cycle that is entered takes its start_time.
LoopTest(t) ==
    /\ thr[t].pc = "test"
    /\ thr' = [thr EXCEPT ![t].pc = IF is_running THEN "read" ELSE "exit",
                          ![t].elapsed = 0]
    /\ UNCHANGED << source, detector, cap, delivered, latest_frame, frame_lock,
                    is_running, capture_thread, created, clr, ses, calls, hist >>

\* A loop that calls the detector whether one is attached or not.
HasDetector_Always == TRUE
\* line 100: `if self.detector:`
HasDetector == detector = "attached"

\* lines 89-92, ret True: an open source with frames left delivers the next
\* frame; lines 99-103 then pick the detector or pass the frame through.
LoopReadFrame(t) ==
    /\ thr[t].pc = "read"
    /\ cap = "open"
    /\ delivered < MaxFrames
    /\ delivered' = delivered + 1
    /\ thr' = [thr EXCEPT ![t].frame = RawFrame(delivered + 1),
                          ![t].pc = IF HasDetector THEN "detect" ELSE "lock"]
    /\ UNCHANGED << source, detector, cap, latest_frame, frame_lock,
                    is_running, capture_thread, created, clr, ses, calls, hist >>

\* lines 92-97, ret False: a file that has no frame left, a released source,
\* or a device that glitches.  A file source leaves the loop, a live source
\* goes round again (`continue` skips the pacing of lines 109-113).
LoopReadFail(t) ==
    /\ thr[t].pc = "read"
    /\ \/ source = "live"
       \/ cap # "open"
       \/ delivered >= MaxFrames
    /\ thr' = [thr EXCEPT ![t].failed = TRUE,
                          ![t].pc = IF IsFileSource THEN "exit" ELSE "test"]
    /\ UNCHANGED << source, detector, cap, delivered, latest_frame, frame_lock,
                    is_running, capture_thread, created, clr, ses, calls, hist >>

\* A read whose exception is not caught: the thread dies where it stands.
LoopReadRaise_Uncaught(t) ==
    /\ thr[t].pc = "read"
    /\ thr' = [thr EXCEPT ![t].err = TRUE, ![t].pc = "done"]
    /\ UNCHANGED << source, detector, cap, delivered, latest_frame, frame_lock,
                    is_running, capture_thread, created, clr, ses, calls, hist >>

\* lines 92, 115-117: the read raises (cv2.error): logged as an error, break.
LoopReadRaise(t) ==
    /\ thr[t].pc = "read"
    /\ thr' = [thr EXCEPT ![t].err = TRUE, ![t].pc = "exit"]
    /\ UNCHANGED << source, detector, cap, delivered, latest_frame, frame_lock,
                    is_running, capture_thread, created, clr, ses, calls, hist >>

\* What one inference can come to: boxes found, nothing found, or an exception
\* inside the try of detection.py lines 46-82.
DetectOutcomes == {"boxes", "nothing", "failed"}

\* A detect() that lets the exception of a failed inference out.
Detect_Propagates(f, out) ==
    [raised |-> out = "failed",
     frame |-> IF out = "boxes" THEN Boxed(f) ELSE f]
\* detection.py lines 42-86: detect() returns a drawn-on copy when the model
\* finds boxes, a plain copy when it finds none, and the frame it was given
\* when the inference raised (the except of lines 84-86); it never raises.
Detect(f, out) ==
    [raised |-> FALSE,
     frame |-> IF out = "boxes" THEN Boxed(f) ELSE f]

\* line 101: annotated_frame, detections = self.detector.detect(frame); an
\* exception out of it would be caught by lines 115-117 and end the loop.
LoopDetectOutcome(t, out) ==
    /\ thr[t].pc = "detect"
    /\ LET r == Detect(thr[t].frame, out) IN
       thr' = IF r.raised
                THEN [thr EXCEPT ![t].err = TRUE, ![t].pc = "exit"]
                ELSE [thr EXCEPT ![t].frame = r.frame,
                                 ![t].detfail = (out = "failed"),
                                 ![t].pc = "lock"]
    /\ UNCHANGED << source, detector, cap, delivered, latest_frame, frame_lock,
                    is_running, capture_thread, created, clr, ses, calls, hist >>

\* The detection of a cycle as the loop sees it: a frame comes back, drawn on
\* or as it was given.
LoopDetect(t) == \E out \in DetectOutcomes \ {"failed"} : LoopDetectOutcome(t, out)

\* The same step when the inference raised inside detect(): the frame comes
\* back as it was given, which is what LoopDetect's "nothing" gives the loop;
\* here the cycle is marked, for the properties about a failed detection.
LoopDetectFail(t) == LoopDetectOutcome(t, "failed")

\* line 106: `with self.frame_lock:` entered.
LoopLock(t) ==
    /\ thr[t].pc = "lock"
    /\ LockFree
    /\ frame_lock' = LoopOwner(t)
    /\ thr' = [thr EXCEPT ![t].pc = "publish"]
    /\ UNCHANGED << source, detector, cap, delivered, latest_frame,
                    is_running, capture_thread, created, clr, ses, calls, hist >>

\* A publish that leaves the `with` block holding the lock.
LoopPublish_KeepsLock(t) ==
    /\ thr[t].pc = "publish"
    /\ latest_frame' = CopyFrame(thr[t].frame)
    /\ frame_lock' = frame_lock
    /\ thr' = [thr EXCEPT ![t].pc = "pace", ![t].frame = NoFrame,
                          ![t].detfail = FALSE]
    /\ hist' = [hist EXCEPT !.published = @ \cup {ReadOf(thr[t].frame)},
                            !.order = Append(@, ReadOf(thr[t].frame))]
    /\ UNCHANGED << source, detector, cap, delivered,
                    is_running, capture_thread, created, clr, ses, calls >>

\* A publish that leaves a filled slot as it is.
LoopPublish_KeepsFirst(t) ==
    /\ thr[t].pc = "publish"
    /\ latest_frame' = IF latest_frame = NoFrame
                         THEN CopyFrame(thr[t].frame) ELSE latest_frame
    /\ frame_lock' = Free
    /\ thr' = [thr EXCEPT ![t].pc = "pace", ![t].frame = NoFrame,
                          ![t].detfail = FALSE]
    /\ hist' = [hist EXCEPT !.published = @ \cup {ReadOf(thr[t].frame)},
                            !.order = Append(@, ReadOf(thr[t].frame))]
    /\ UNCHANGED << source, detector, cap, delivered,
                    is_running, capture_thread, created, clr, ses, calls >>

\* line 107: self.latest_frame = annotated_frame.copy(), and the lock released.
LoopPublish(t) ==
    /\ thr[t].pc = "publish"
    /\ latest_frame' = CopyFrame(thr[t].frame)
    /\ frame_lock' = Free
    /\ thr' = [thr EXCEPT ![t].pc = "pace", ![t].frame = NoFrame,
                          ![t].detfail = FALSE]
    /\ hist' = [hist EXCEPT !.published = @ \cup {ReadOf(thr[t].frame)},
                            !.order = Append(@, ReadOf(thr[t].frame))]
    /\ UNCHANGED << source, detector, cap, delivered,
                    is_running, capture_thread, created, clr, ses, calls >>

\* lines 106-107, 115-117: the copy of line 107 raises (no memory for the new
\* array): the `with` gives the lock back, nothing was assigned, the except
\* logs and breaks.
LoopPublishRaise(t) ==
    /\ thr[t].pc = "publish"
    /\ frame_lock' = Free
    /\ thr' = [thr EXCEPT ![t].err = TRUE, ![t].frame = NoFrame,
                          ![t].detfail = FALSE, ![t].pc = "exit"]
    /\ UNCHANGED << source, detector, cap, delivered, latest_frame,
                    is_running, capture_thread, created, clr, ses, calls, hist >>

\* lines 110-113: sleep what is left of the frame interval, then loop.
LoopPace(t) ==
    /\ thr[t].pc = "pace"
    /\ thr' = [thr EXCEPT ![t].pc = "test", ![t].failed = FALSE,
                          ![t].elapsed = @ + SleepTime(@)]
    /\ UNCHANGED << source, detector, cap, delivered, latest_frame, frame_lock,
                    is_running, capture_thread, created, clr, ses, calls, hist >>

\* A loop that ends without writing the flag back.
LoopExit_KeepsFlag(t) ==
    /\ thr[t].pc = "exit"
    /\ is_running' = is_running
    /\ thr' = [thr EXCEPT ![t].pc = "done"]
    /\ UNCHANGED << source, detector, cap, delivered, latest_frame, frame_lock,
                    capture_thread, created, clr, ses, calls, hist >>

\* lines 119-120: after the loop, self.is_running = False; the thread ends.
LoopExit(t) ==
    /\ thr[t].pc = "exit"
    /\ is_running' = FALSE
    /\ thr' = [thr EXCEPT ![t].pc = "done"]
    /\ UNCHANGED << source, detector, cap, delivered, latest_frame, frame_lock,
                    capture_thread, created, clr, ses, calls, hist >>

\* ------------------------------------------------------------- StreamService
\* cv2.imencode('.jpg', frame, params): (True, the JPEG bytes of the frame)
\* or (False, an empty buffer).  The bytes are the frame's pixels between the
\* start-of-image and end-of-image markers.
Jpeg(f) == << <<0, "SOI">> >> \o f \o << <<0, "EOI">> >>
ImEncode(f, ok) == [ret |-> ok, buffer |-> IF ok THEN Jpeg(f) ELSE <<>>]

\* lines 35-36 / 84-85: the multipart chunk around the JPEG bytes.
Chunk(payload) ==
    << "--frame", "CRLF", "Content-Type: image/jpeg", "CRLF", "CRLF",
       payload, "CRLF" >>

\* A generator that yields without looking at ret.
EncodeOk_Unchecked(r) == TRUE
\* lines 27 / 77: `if not ret:` guards the yield.
EncodeOk(r) == r.ret

\* lines 45-64, _create_placeholder_frame: line 48 calls cv2.zeros with
\* dtype=cv2.uint8; the cv2 module has neither attribute (they are numpy's),
\* so the call raises AttributeError before any frame exists.
CreatePlaceholderFrame == [raised |-> TRUE, frame |-> NoFrame]

NextIter(n) == IF n < IterCap THEN n + 1 ELSE IterCap

\* video.py 26-29: GET /stream hands generate_frames() to the response; the
\* service also offers generate_frames_async().
SessOpen(s) ==
    /\ ses[s].pc = "closed"
    /\ \E k \in {"sync", "async"} :
         ses' = [ses EXCEPT ![s] = [pc |-> "lock", kind |-> k, frame |-> NoFrame,
                                    buf |-> NoFrame, chunk |-> <<>>, iter |-> 1,
                                    none |-> FALSE, encfail |-> FALSE,
                                    alias |-> FALSE]]
    /\ UNCHANGED << source, detector, cap, delivered, latest_frame, frame_lock,
                    is_running, capture_thread, created, thr, clr, calls, hist >>

\* lines 19 / 70 with video_capture.py 124: get_latest_frame() takes the lock.
SessLock(s) ==
    /\ ses[s].pc = "lock"
    /\ LockFree
    /\ frame_lock' = SessOwner(s)
    /\ ses' = [ses EXCEPT ![s].pc = "copy1", ![s].none = FALSE,
                          ![s].encfail = FALSE]
    /\ UNCHANGED << source, detector, cap, delivered, latest_frame,
                    is_running, capture_thread, created, thr, clr, calls, hist >>

\* video_capture.py 125: None when nothing is cached (the lock is released on
\* return), else the copy starts: the first half of the buffer.
SessCopy1(s) ==
    /\ ses[s].pc = "copy1"
    /\ IF latest_frame = NoFrame
         THEN /\ ses' = [ses EXCEPT ![s].frame = NoFrame, ![s].none = TRUE,
                                    ![s].pc = "placeholder"]
              /\ frame_lock' = Free
         ELSE /\ ses' = [ses EXCEPT ![s].buf = << latest_frame[1] >>,
                                    ![s].pc = "copy2"]
              /\ frame_lock' = frame_lock
    /\ UNCHANGED << source, detector, cap, delivered, latest_frame,
                    is_running, capture_thread, created, thr, clr, calls, hist >>

\* A get_latest_frame() that hands out the cached array itself.
ReadReturnsCached_NoCopy == TRUE
\* video_capture.py 125: `self.latest_frame.copy()`: the caller gets an array
\* of its own, never the cached one.
ReadReturnsCached == FALSE

\* The place a frame has in the order of the publishes (hist.order holds the
\* source reads in the order line 107 published them); 0 for a frame that
\* was never published.
PublishIndex(f) ==
    LET at == {i \in 1..Len(hist.order) : hist.order[i] = ReadOf(f)}
    IN  IF at = {} THEN 0 ELSE CHOOSE i \in at : \A j \in at : j <= i

\* hist.got holds, for the sessions the history follows, which publish their
\* last read handed them (0 before the first read).
Handed(s, i) ==
    [hist EXCEPT !.got = [x \in DOMAIN @ |-> IF x = s THEN i ELSE @[x]]]

\* video_capture.py 125: the rest of the copy; the lock is released on return.
SessCopy2(s) ==
    /\ ses[s].pc = "copy2"
    /\ ses' = [ses EXCEPT ![s].frame = ses[s].buf \o << latest_frame[2] >>,
                          ![s].buf = NoFrame,
                          ![s].alias = ReadReturnsCached,
                          ![s].pc = "encode"]
    /\ frame_lock' = Free
    /\ hist' = Handed(s, PublishIndex(ses[s].buf \o << latest_frame[2] >>))
    /\ UNCHANGED << source, detector, cap, delivered, latest_frame,
                    is_running, capture_thread, created, thr, clr, calls >>

\* lines 21-23 / 72-73: no frame: build the placeholder.  An exception leaves
\* generate_frames through `break` (41-43) and sends generate_frames_async
\* to its sleep (89-91).
SessPlaceholder(s) ==
    /\ ses[s].pc = "placeholder"
    /\ ses' = IF CreatePlaceholderFrame.raised
                THEN [ses EXCEPT ![s].pc = IF ses[s].kind = "sync"
                                             THEN "ended" ELSE "backoff"]
                ELSE [ses EXCEPT ![s].frame = CreatePlaceholderFrame.frame,
                                 ![s].pc = "encode"]
    /\ UNCHANGED << source, detector, cap, delivered, latest_frame, frame_lock,
                    is_running, capture_thread, created, thr, clr, calls, hist >>

\* What writing into an array leaves: the same frame with every pixel drawn on.
Drawn(f) == [i \in 1..Len(f) |-> << f[i][1], "drawn" >>]

\* Two names for one array: both were handed the cached array of one publish.
SameArray(f, g) == f # NoFrame /\ g # NoFrame /\ ReadOf(f) = ReadOf(g)

\* The holder of a frame returned by get_latest_frame() (lines 122-125) writes
\* into it before it uses it, as line 62 of stream_service.py does into the
\* placeholder.  The write lands in the array the holder has: when that is the
\* cached array, the cache and every other holder of it see the write.
SessScribble(s) ==
    /\ ses[s].pc = "encode"
    /\ ses[s].frame # Drawn(ses[s].frame)
    /\ ses' = [r \in Sessions |->
                IF r = s \/ (ses[s].alias /\ ses[r].alias
                               /\ SameArray(ses[r].frame, ses[s].frame))
                  THEN [ses[r] EXCEPT !.frame = Drawn(@)]
                  ELSE ses[r]]
    /\ latest_frame' = IF ses[s].alias /\ SameArray(latest_frame, ses[s].frame)
                         THEN Drawn(latest_frame)
                         ELSE latest_frame
    /\ UNCHANGED << source, detector, cap, delivered, frame_lock,
                    is_running, capture_thread, created, thr, clr, calls, hist >>

\* lines 26-36 / 76-85: encode and yield the chunk; on `not ret` log and
\* `continue` (after a 0.1 s sleep in the async generator).
SessEncode(s) ==
    /\ ses[s].pc = "encode"
    /\ \E ok \in BOOLEAN :
         LET r == ImEncode(ses[s].frame, ok) IN
         ses' = IF EncodeOk(r)
                  THEN [ses EXCEPT ![s].chunk = Chunk(r.buffer),
                                   ![s].frame = NoFrame,
                                   ![s].pc = "yielded"]
                  ELSE [ses EXCEPT ![s].encfail = TRUE,
                                   ![s].frame = NoFrame,
                                   ![s].iter = IF ses[s].kind = "sync"
                                                 THEN NextIter(@) ELSE @,
                                   ![s].pc = IF ses[s].kind = "sync"
                                               THEN "lock" ELSE "backoff"]
    /\ UNCHANGED << source, detector, cap, delivered, latest_frame, frame_lock,
                    is_running, capture_thread, created, thr, clr, calls, hist >>

\* A session whose failure also takes the capture down.
SessEncodeRaise_StopsCapture(s) ==
    /\ ses[s].pc = "encode"
    /\ ses' = [ses EXCEPT ![s].encfail = TRUE,
                          ![s].frame = NoFrame,
                          ![s].pc = IF ses[s].kind = "sync"
                                      THEN "ended" ELSE "backoff"]
    /\ is_running' = FALSE
    /\ UNCHANGED << source, detector, cap, delivered, latest_frame, frame_lock,
                    capture_thread, created, thr, clr, calls, hist >>

\* lines 26, 41-43 / 76, 89-91: cv2.imencode raises (cv2.error).
SessEncodeRaise(s) ==
    /\ ses[s].pc = "encode"
    /\ ses' = [ses EXCEPT ![s].encfail = TRUE,
                          ![s].frame = NoFrame,
                          ![s].pc = IF ses[s].kind = "sync"
                                      THEN "ended" ELSE "backoff"]
    /\ UNCHANGED << source, detector, cap, delivered, latest_frame, frame_lock,
                    is_running, capture_thread, created, thr, clr, calls, hist >>

\* line 39 calls asyncio.sleep(0.033) from a plain generator and drops the
\* coroutine it returns: nothing sleeps.  Line 87 awaits it.
PacingAwaited(kind) == kind = "async"

\* lines 39 / 87: the consumer asks for the next chunk; the generator goes on
\* from its yield, into the pacing sleep when it is awaited, else straight
\* into the next iteration.
SessResume(s) ==
    /\ ses[s].pc = "yielded"
    /\ ses' = [ses EXCEPT ![s].pc = IF PacingAwaited(ses[s].kind)
                                       THEN "sleep" ELSE "lock",
                          ![s].iter = NextIter(@),
                          ![s].chunk = <<>>]
    /\ UNCHANGED << source, detector, cap, delivered, latest_frame, frame_lock,
                    is_running, capture_thread, created, thr, clr, calls, hist >>

\* line 87: the awaited pacing sleep is over: next iteration.
SessSlept(s) ==
    /\ ses[s].pc = "sleep"
    /\ ses' = [ses EXCEPT ![s].pc = "lock"]
    /\ UNCHANGED << source, detector, cap, delivered, latest_frame, frame_lock,
                    is_running, capture_thread, created, thr, clr, calls, hist >>

\* lines 79-80, 91: the async generator's 0.1 s sleep is over: next iteration.
SessBackoff(s) ==
    /\ ses[s].pc = "backoff"
    /\ ses' = [ses EXCEPT ![s].pc = "lock", ![s].iter = NextIter(@)]
    /\ UNCHANGED << source, detector, cap, delivered, latest_frame, frame_lock,
                    is_running, capture_thread, created, thr, clr, calls, hist >>

\* The connection closes: the response stops iterating and closes the generator
\* where it is suspended (at its yield, or in an awaited sleep).
SessClose(s) ==
    /\ ses[s].pc \in {"yielded", "sleep", "backoff"}
    /\ ses' = [ses EXCEPT ![s].pc = "closed", ![s].chunk = <<>>]
    /\ hist' = [Handed(s, 0) EXCEPT !.openAtStop = @ \ {s}]
    /\ UNCHANGED << source, detector, cap, delivered, latest_frame, frame_lock,
                    is_running, capture_thread, created, thr, clr, calls >>

\* ------------------------------------------------------------- specification
Next ==
    \/ \E c \in Callers :
         \/ StartCall(c) \/ StartCheck(c) \/ StartSet(c)
         \/ StartCreate(c) \/ StartThread(c)
         \/ StopCall(c) \/ StopClear(c) \/ StopAlive(c) \/ StopEval(c)
         \/ StopJoined(c) \/ StopJoinTimeout(c) \/ StopRelease(c)
    \/ \E t \in Threads :
         \/ LoopTest(t) \/ LoopReadFrame(t) \/ LoopReadFail(t) \/ LoopReadRaise(t)
         \/ LoopDetect(t) \/ LoopLock(t) \/ LoopPublish(t) \/ LoopPace(t)
         \/ LoopExit(t)
    \/ \E s \in Sessions :
         \/ SessOpen(s) \/ SessLock(s) \/ SessCopy1(s) \/ SessCopy2(s)
         \/ SessPlaceholder(s) \/ SessEncode(s) \/ SessEncodeRaise(s)
         \/ SessResume(s) \/ SessSlept(s) \/ SessBackoff(s) \/ SessClose(s)

Spec == Init /\ [][Next]_vars

\* The lifecycle alone: two request threads and the loop threads they spawn, on
\* the service as main.py wires it (detector attached), no session connected.
CallerStep(c) ==
    \/ StartCall(c) \/ StartCheck(c) \/ StartSet(c)
    \/ StartCreate(c) \/ StartThread(c)
    \/ StopCall(c) \/ StopClear(c) \/ StopAlive(c) \/ StopEval(c)
    \/ StopJoined(c) \/ StopJoinTimeout(c) \/ StopRelease(c)

LoopStep(t) ==
    \/ LoopTest(t) \/ LoopReadFrame(t) \/ LoopReadFail(t) \/ LoopReadRaise(t)
    \/ LoopDetect(t) \/ LoopLock(t) \/ LoopPublish(t) \/ LoopPace(t)
    \/ LoopExit(t)

SessStep(s) ==
    \/ SessOpen(s) \/ SessLock(s) \/ SessCopy1(s) \/ SessCopy2(s)
    \/ SessPlaceholder(s) \/ SessEncode(s) \/ SessEncodeRaise(s)
    \/ SessResume(s) \/ SessSlept(s) \/ SessBackoff(s) \/ SessClose(s)

NextLife == (\E c \in Callers : CallerStep(c)) \/ (\E t \in Threads : LoopStep(t))
InitLife == Init /\ detector = "attached"
SpecLife == InitLife /\ [][NextLife]_vars

\* The pipeline end to end on a camera: one request thread making its calls one
\* after the other, the loop threads, and one stream session.
NextStream ==
    \/ CallerStep("a")
    \/ \E t \in Threads : LoopStep(t)
    \/ SessStep("s")
InitStream == Init /\ source = "live"
SpecStream == InitStream /\ [][NextStream]_vars

\* The application as main.py runs it: startup start(), then /start and /stop
\* requests answered one at a time beside the loop threads, then shutdown.
RouteStep(c) ==
    \/ RouteStart(c) \/ RouteStartReply(c) \/ RouteStop(c) \/ RouteStopReply(c)
    \/ StartCheck(c) \/ StartSet(c) \/ StartCreate(c) \/ StartThread(c)
    \/ StopClear(c) \/ StopAlive(c) \/ StopEval(c)
    \/ StopJoined(c) \/ StopJoinTimeout(c) \/ StopRelease(c)

NextRouter ==
    \/ LifespanStart("a")
    \/ RouteStep("a")
    \/ LifespanStop("a")
    \/ \E t \in Threads : LoopStep(t)
InitRouter == Init /\ detector = "attached"
SpecRouter == InitRouter /\ [][NextRouter]_vars

\* Two consumers of one running capture: the startup start(), its loop, and
\* two stream sessions that may write into the frames they were handed.
NextIsolation ==
    \/ LifespanStart("a")
    \/ StartCheck("a") \/ StartSet("a") \/ StartCreate("a") \/ StartThread("a")
    \/ \E t \in Threads : LoopStep(t)
    \/ \E s \in Sessions : SessStep(s) \/ SessScribble(s)
InitIsolation == Init /\ source = "live" /\ detector = "attached"
SpecIsolation == InitIsolation /\ [][NextIsolation]_vars

\* The application with every started loop thread scheduled again and again:
\* a thread that can take a step of its loop eventually takes one (each read,
\* detect and sleep returns).  Nothing is assumed of the callers.
SpecRouterFair ==
    SpecRouter /\ \A t \in Threads : WF_vars(LoopStep(t))

\* The application with the thread inside stop() scheduled again and again:
\* each statement of stop() is eventually executed and the join returns when
\* its thread has ended or its two seconds are over.  Nothing is assumed of
\* the loop threads: a read or a detect may never return.
StopStep(c) ==
    \/ StopClear(c) \/ StopAlive(c) \/ StopEval(c)
    \/ StopJoined(c) \/ StopJoinTimeout(c) \/ StopRelease(c)
SpecStopFair ==
    SpecRouter /\ \A c \in Callers : WF_vars(StopStep(c))

\* The application with the cycles whose detection failed marked.
NextDetect == NextRouter \/ \E t \in Threads : LoopDetectFail(t)
InitDetect == InitRouter
SpecDetect == InitDetect /\ [][NextDetect]_vars

\* The application with every exception a cycle can meet: the read's
\* (LoopReadRaise), the detector's (caught in detect(), LoopDetectFail) and
\* the publish's.
NextEscape == NextDetect \/ \E t \in Threads : LoopPublishRaise(t)
InitEscape == InitRouter
SpecEscape == InitEscape /\ [][NextEscape]_vars

\* video_capture.py 13: the default width and height of the constructor.
Width == 640
Height == 480
\* video_capture.py 134: (self.height, self.width, 3).
DefaultShape == << Height, Width, 3 >>
\* ndarray.shape of a frame: rows, columns, channels of the array as the
\* source delivered it (a camera need not deliver the size asked for).
FrameShape(f) == << Len(f), Len(f[1]), 3 >>

\* A get_frame_shape() that reads the slot under frame_lock.
ShapeTakesLock_Always == TRUE
\* video_capture.py 131-134: get_frame_shape() reads self.latest_frame with
\* no `with self.frame_lock`.
ShapeTakesLock == FALSE
StatusBlocked == ShapeTakesLock /\ ~LockFree

\* video.py 34-42: GET /status with the service set: is_active() is read.
RouteStatus(c) ==
    /\ calls > 0
    /\ clr[c].pc = "idle"
    /\ clr' = [clr EXCEPT ![c].pc = "status_check", ![c].ret = "route",
                          ![c].reply = << is_active >>]
    /\ UNCHANGED << source, detector, cap, delivered, latest_frame, frame_lock,
                    is_running, capture_thread, created, thr, ses, calls, hist >>

\* video_capture.py 132: `if self.latest_frame is not None:`
StatusCheck(c) ==
    /\ clr[c].pc = "status_check"
    /\ ~StatusBlocked
    /\ clr' = [clr EXCEPT ![c].pc = "status_shape",
                          ![c].seen = latest_frame # NoFrame]
    /\ UNCHANGED << source, detector, cap, delivered, latest_frame, frame_lock,
                    is_running, capture_thread, created, thr, ses, calls, hist >>

\* video_capture.py 133-134: the slot is read again for its .shape (None has
\* none: AttributeError, answered 500 by video.py 46-48), or the default.
StatusShape(c) ==
    /\ clr[c].pc = "status_shape"
    /\ clr' = [clr EXCEPT
                 ![c].pc = Return(c, "status_reply",
                                  clr[c].seen /\ latest_frame = NoFrame),
                 ![c].reply = IF clr[c].seen
                                THEN IF latest_frame = NoFrame THEN @
                                     ELSE @ \o << FrameShape(latest_frame),
                                                  source >>
                                ELSE @ \o << DefaultShape, source >>]
    /\ UNCHANGED << source, detector, cap, delivered, latest_frame, frame_lock,
                    is_running, capture_thread, created, thr, ses, calls, hist >>

\* video.py 41-45 / 46-48: the answer is sent.
RouteStatusReply(c) ==
    /\ clr[c].ret = "route"
    /\ clr[c].pc \in {"status_reply", "route_failed"}
    /\ clr[c].reply # << >>
    /\ clr' = [clr EXCEPT ![c].pc = "idle", ![c].ret = "idle",
                          ![c].seen = FALSE, ![c].reply = << >>,
                          ![c].message = IF clr[c].pc = "status_reply"
                                           THEN "status" ELSE "500"]
    /\ UNCHANGED << source, detector, cap, delivered, latest_frame, frame_lock,
                    is_running, capture_thread, created, thr, ses, calls, hist >>

\* The capture from startup to shutdown, with no request in between, and one
\* stream session whose reads the history follows.
NextOrder ==
    \/ LifespanStart("a")
    \/ StartCheck("a") \/ StartSet("a") \/ StartCreate("a") \/ StartThread("a")
    \/ LifespanStop("a")
    \/ StopClear("a") \/ StopAlive("a") \/ StopEval("a")
    \/ StopJoined("a") \/ StopJoinTimeout("a") \/ StopRelease("a")
    \/ \E t \in Threads : LoopStep(t)
    \/ SessStep("s")
InitOrder == InitFollowing({"s"}) /\ source = "live" /\ detector = "attached"
SpecOrder == InitOrder /\ [][NextOrder]_vars

\* The application with its status route.
StatusStep(c) ==
    RouteStatus(c) \/ StatusCheck(c) \/ StatusShape(c) \/ RouteStatusReply(c)
NextStatus == NextRouter \/ StatusStep("a")
InitStatus == InitRouter
SpecStatus == InitStatus /\ [][NextStatus]_vars

\* The application with the clock: time passes inside the capture cycles.
NextPace == NextRouter \/ \E t \in Threads : Tick(t)
InitPace == InitRouter
SpecPace == InitPace /\ [][NextPace]_vars

\* The same from the first line of the startup: the service not yet built.
NextBoot == Construct("a") \/ NextRouter
InitBoot ==
    /\ source \in {"file", "live"}
    /\ detector = "attached"
    /\ cap = "unopened"
    /\ delivered = 0
    /\ latest_frame = NoFrame
    /\ frame_lock = Free
    /\ is_running = FALSE
    /\ capture_thread = NoThread
    /\ created = 0
    /\ thr = [t \in Threads |->
                [pc |-> "unborn", frame |-> NoFrame,
                 failed |-> FALSE, err |-> FALSE, detfail |-> FALSE,
                 elapsed |-> 0]]
    /\ clr = [c \in Callers |->
                [pc |-> IF c = "a" THEN "boot" ELSE "idle", target |-> NoThread,
                 ret |-> "idle", seen |-> FALSE, message |-> "",
                 reply |-> << >>]]
    /\ ses = [s \in Sessions |->
                [pc |-> "closed", kind |-> "sync", frame |-> NoFrame,
                 buf |-> NoFrame, chunk |-> <<>>, iter |-> 0,
                 none |-> FALSE, encfail |-> FALSE, alias |-> FALSE]]
    /\ calls = 0
    /\ hist = [published |-> {}, seq |-> "none", overlap |-> FALSE,
               openAtStop |-> {}, order |-> << >>, got |-> << >>]
SpecBoot == InitBoot /\ [][NextBoot]_vars

\* ------------------------------------------------------------- properties

\* C1: whatever the capture loops publish and however the reads interleave
\* with them, the frame get_latest_frame() hands back is None or one whole
\* frame that was published before: both pixels of one and the same publish.
C1_ReadsAreWholeFrames ==
    \A s \in Sessions :
        ses[s].pc \in {"placeholder", "encode"} =>
            \/ ses[s].frame = NoFrame
            \/ /\ Len(ses[s].frame) = 2
               /\ ses[s].frame[1] = ses[s].frame[2]
               /\ ReadOf(ses[s].frame) \in hist.published

\* A reader holds a frame that a later publish has already replaced.
C1_Witness ==
    \E s \in Sessions :
        /\ ses[s].pc = "encode"
        /\ ses[s].frame # NoFrame
        /\ ses[s].frame # latest_frame
        /\ Cardinality(hist.published) >= 2

Settled ==
    \A t \in Threads :
        /\ thr[t].pc \notin {"created", "exit"}
        /\ InLoop(t) => is_running

\* C3: when a start() and a stop() have overlapped, all calls have returned and
\* the loops have settled, is_running is true exactly when one thread runs the
\* loop.
C3_OneConsistentRunState ==
    (hist.overlap /\ (\A c \in Callers : clr[c].pc = "idle") /\ Settled)
        => (is_running <=> Cardinality({t \in Threads : InLoop(t)}) = 1)

\* C4: on a file source a read that returns no frame ends the loop in that
\* cycle: the thread goes to the end of the loop and nowhere else, logs no
\* error, and finishes by writing is_running = False; once the file's frames
\* are consumed, every read takes the loop to its end.
C4_FileEndStopsLoop ==
    /\ [](source = "file" =>
            \A t \in Threads :
                thr[t].failed => thr[t].pc \in {"exit", "done"} /\ ~thr[t].err)
    /\ [][source = "file" =>
            \A t \in Threads :
                /\ (delivered = MaxFrames /\ thr[t].pc = "read" /\ thr'[t].pc # "read")
                       => thr'[t].pc = "exit"
                /\ (thr[t].pc = "exit" /\ thr'[t].pc = "done") => ~is_running']_vars

\* The file was read to its end with the source still open, and the loop is over.
C4_Witness ==
    /\ source = "file"
    /\ cap = "open"
    /\ delivered = MaxFrames
    /\ ~is_running
    /\ \E t \in Threads : thr[t].failed /\ thr[t].pc = "done" /\ ~thr[t].err

\* C5: on a live source a read that returns no frame sends the loop back to its
\* test and leaves is_running alone; the loop leaves only on an exception or on
\* finding is_running false; and a publish after such a failure stores that
\* cycle's frame.
C5_LiveReadFailureRetries ==
    [][source = "live" =>
         \A t \in Threads :
             /\ (thr[t].pc = "read" /\ thr'[t].pc \notin {"read", "detect", "lock"}
                   /\ ~thr'[t].err)
                    => (thr'[t].pc = "test" /\ is_running' = is_running)
             /\ (thr[t].pc = "test" /\ thr'[t].pc = "exit") => ~is_running
             /\ (thr[t].failed /\ thr[t].pc = "publish" /\ thr'[t].pc = "pace")
                    => (latest_frame' = thr[t].frame /\ is_running' = is_running)]_vars

\* A loop on a camera has published after a failed read and is still running.
C5_Witness ==
    /\ source = "live"
    /\ is_running
    /\ \E t \in Threads :
          thr[t].failed /\ thr[t].pc = "pace" /\ latest_frame # NoFrame

\* C6: a session whose first read finds the cache empty gets to its first chunk
\* in that iteration: it neither ends nor gives the iteration up.
C6_EmptyCacheYieldsPlaceholder ==
    \A s \in Sessions :
        (ses[s].iter = 1 /\ ses[s].none)
            => ses[s].pc \in {"placeholder", "encode", "yielded"}

\* C7: a session whose encode failed still emits a chunk in that iteration (the
\* placeholder) and goes on.
C7_EncodeFailureSubstitutes ==
    \A s \in Sessions :
        ses[s].encfail => ses[s].pc \in {"placeholder", "encode", "yielded"}

\* C8: a stream session never ends from inside: the generator does not return.
C8_GeneratorNeverReturns ==
    \A s \in Sessions : ses[s].pc # "ended"

\* b'--frame\r\n' b'Content-Type: image/jpeg\r\n\r\n' <payload> b'\r\n'
WellFormed(c) ==
    /\ Len(c) = 7
    /\ c[1] = "--frame" /\ c[2] = "CRLF"
    /\ c[3] = "Content-Type: image/jpeg" /\ c[4] = "CRLF"
    /\ c[5] = "CRLF"
    /\ Len(c[6]) > 0
    /\ c[7] = "CRLF"

C10_SessionsSurviveStop ==
    \A s \in hist.openAtStop : ses[s].pc # "ended"

\* C11: no statement of stop() changes the cache slot, and a read that
\* completes hands back the frame the slot holds at that moment (None when it
\* is empty): with no publish after it, a read after stop() returns the frame
\* that was the latest before stop().
C11_StopKeepsSlot ==
    /\ [][\A c \in Callers :
            (clr[c].pc \in StopPcs /\ clr'[c] # clr[c])
                => latest_frame' = latest_frame]_vars
    /\ [][\A s \in Sessions :
            (ses[s].pc \in {"copy1", "copy2"}
               /\ ses'[s].pc \in {"placeholder", "encode"})
                => ses'[s].frame = latest_frame]_vars

\* stop() has returned, the slot still holds a frame, and a session that was
\* connected during the stop has read that frame.
C11_Witness ==
    /\ \A c \in Callers : clr[c].pc = "idle"
    /\ cap = "released"
    /\ ~is_running
    /\ latest_frame # NoFrame
    /\ \E s \in hist.openAtStop :
          ses[s].pc = "encode" /\ ses[s].frame = latest_frame

\* C12: when the loop thread ends, whatever ended it, is_active() is false in
\* the state it leaves, and is_active() becomes true again only by the
\* `self.is_running = True` of a start() call: without a later start() the
\* status stays inactive, no stop() needed.
C12_EndedLoopReportsInactive ==
    /\ [][\A t \in Threads :
            (thr[t].pc = "exit" /\ thr'[t].pc = "done") => ~is_active']_vars
    /\ [][(~is_active /\ is_active')
            => \E c \in Callers :
                 clr[c].pc = "start_set" /\ clr'[c].pc = "start_create"]_vars

\* A loop ended by itself (end of file or a raised read), no stop() was ever
\* called (the source is still open, nobody is inside a call), and the
\* service reports inactive.
C12_Witness ==
    /\ \E t \in Threads :
          thr[t].pc = "done" /\ (thr[t].failed \/ thr[t].err)
    /\ \A c \in Callers : clr[c].pc = "idle"
    /\ cap = "open"
    /\ ~is_active

\* C13: the answer of /start and /stop tells a transition from a request that
\* found the state already reached.  "Video capture started" is answered only
\* by a request that read is_active() false and whose start() ran line 67
\* (it never takes the early return of line 63); "Video capture stopped" only
\* by one that read is_active() true and whose stop() ran line 74; the two other
\* messages are answered exactly by the requests that found the state already
\* reached, and such a request changes nothing of the service.
C13_MessagesTellTransitions ==
    /\ [](\A c \in Callers :
            /\ clr[c].message = "Video capture started" => ~clr[c].seen
            /\ clr[c].message = "Video capture already running" => clr[c].seen
            /\ clr[c].message = "Video capture stopped" => clr[c].seen
            /\ clr[c].message = "Video capture not running" => ~clr[c].seen
            /\ clr[c].ret = "route" /\ clr[c].pc \in StartPcs => ~clr[c].seen
            /\ clr[c].ret = "route" /\ clr[c].pc \in StopPcs => clr[c].seen
            /\ clr[c].ret = "route" /\ clr[c].pc = "start_check" => ~is_running)
    /\ [][\A c \in Callers :
            (clr[c].ret = "route" /\ clr[c].pc = "start_set"
               /\ clr'[c].pc = "start_create")
                => ~is_running /\ is_running']_vars
    /\ [][\A c \in Callers :
            (clr[c].ret = "route" /\ clr[c].pc = "stop_clear"
               /\ clr'[c].pc = "stop_alive")
                => ~is_running']_vars
    /\ [][\A c \in Callers :
            (clr[c].pc = "idle" /\ clr'[c].pc = "idle" /\ clr'[c] # clr[c])
                => /\ clr'[c].message = IF clr'[c].seen
                                          THEN "Video capture already running"
                                          ELSE "Video capture not running"
                   /\ UNCHANGED << cap, latest_frame, is_running,
                                   capture_thread, created, thr >>]_vars
    /\ [][\A c \in Callers :
            (clr[c].ret = "route" /\ clr'[c].ret = "idle")
                => clr'[c].message =
                     IF clr[c].pc = "start_reply" THEN "Video capture started"
                     ELSE IF clr[c].pc = "stop_reply" THEN "Video capture stopped"
                     ELSE "500"]_vars

\* A /stop that stopped the capture, then a /start that found it stopped and
\* started it again: answered "Video capture started", a second loop thread
\* running.
C13_Witness ==
    \E c \in Callers :
        /\ clr[c].pc = "idle"
        /\ clr[c].message = "Video capture started"
        /\ ~clr[c].seen
        /\ cap = "released"
        /\ created = 2
        /\ is_running

\* C14: once the calls have returned and the service is running, the loop of
\* the thread start() created reads from an open source; in particular after a
\* stop() followed by a start().
C14_RestartReadsOpenSource ==
    (/\ \A c \in Callers : clr[c].pc = "idle"
     /\ is_running
     /\ InLoop(capture_thread))
        => cap = "open"

\* C15: when the source did not open, the startup has failed with the error:
\* no start() was called, the service is not running and no loop thread
\* exists.
C15_OpenFailureIsFatal ==
    cap = "failed"
        => /\ clr["a"].pc = "boot_failed"
           /\ calls = 0
           /\ ~is_running
           /\ created = 0
           /\ \A t \in Threads : thr[t].pc = "unborn"

\* The source did not open and the startup ended on the error.
C15_Witness == cap = "failed" /\ clr["a"].pc = "boot_failed"

\* C16: on a service that was never started (so every stop() so far found it
\* idle) the source has not been released.
C16_IdleStopIsNoOp ==
    (created = 0 /\ \A c \in Callers : clr[c].pc \notin StartPcs)
        => cap = "open"

\* C17: a stop() that executes its release finds the source open: no release
\* of a source that an earlier stop() already released.
C17_ReleasedOnce ==
    [][\A c \in Callers :
         (clr[c].pc = "stop_release" /\ clr'[c].pc # "stop_release")
             => cap = "open"]_vars

\* C18: the frame lock is owned only across one copy: a loop thread owns it
\* only at its publish (not while it tests, reads, detects or paces), a
\* session only inside the copy of get_latest_frame (not while it builds the
\* placeholder, encodes, is suspended at its yield or sleeps).
C18_LockHeldForOneCopy ==
    /\ \A t \in Threads :
          frame_lock = LoopOwner(t) => thr[t].pc = "publish"
    /\ \A s \in Sessions :
          frame_lock = SessOwner(s) => ses[s].pc \in {"copy1", "copy2"}
    /\ frame_lock # Free
          => \/ \E t \in Threads : frame_lock = LoopOwner(t)
             \/ \E s \in Sessions : frame_lock = SessOwner(s)

\* A session is in the middle of its copy, owning the lock, while a loop
\* thread waits at line 106 with a frame to publish.
C18_Witness ==
    \E s \in Sessions, t \in Threads :
        /\ frame_lock = SessOwner(s)
        /\ ses[s].pc = "copy2"
        /\ thr[t].pc = "lock"

\* C19: the frame get_latest_frame() returned belongs to its caller alone: a
\* caller that writes into its frame changes neither the cache slot nor the
\* frame another reader holds, and a change of the cache slot (a later publish)
\* leaves every frame already returned as it was.
C19_ReturnedFrameIsolated ==
    /\ [][\A s \in Sessions :
            (ses[s].pc = "encode" /\ ses'[s].pc = "encode"
               /\ ses'[s].frame # ses[s].frame)
                => /\ latest_frame' = latest_frame
                   /\ \A r \in Sessions \ {s} : ses'[r].frame = ses[r].frame]_vars
    /\ [][latest_frame' # latest_frame
            => \A s \in Sessions :
                 ses[s].pc = "encode" => ses'[s].frame = ses[s].frame]_vars

\* Two readers hold the frame of one publish; one has written into its own,
\* the other's and the cached one are untouched.
C19_Witness ==
    /\ ses["s"].pc = "encode" /\ ses["r"].pc = "encode"
    /\ SameArray(ses["s"].frame, ses["r"].frame)
    /\ SameArray(ses["s"].frame, latest_frame)
    /\ ses["s"].frame = Drawn(ses["s"].frame)
    /\ ses["r"].frame # Drawn(ses["r"].frame)
    /\ latest_frame = ses["r"].frame

\* C20: a cycle whose detection failed goes on as any other: no detect step
\* ends the loop, a failed one leaves the frame as it was read, the thread
\* goes on to its publish with no error, the frame it publishes is the
\* unannotated one, after which it paces as in any cycle, and none of these
\* steps writes the flag is_active() returns.
C20_DetectFailureNonFatal ==
    /\ [](\A t \in Threads :
            thr[t].detfail => /\ thr[t].pc \in {"lock", "publish"}
                              /\ thr[t].frame = RawFrame(ReadOf(thr[t].frame))
                              /\ ~thr[t].err)
    /\ [][\A t \in Threads :
            (thr[t].pc = "detect" /\ thr'[t] # thr[t])
                => /\ thr'[t].pc = "lock"
                   /\ ~thr'[t].err
                   /\ thr'[t].detfail => thr'[t].frame = thr[t].frame
                   /\ is_running' = is_running]_vars
    /\ [][\A t \in Threads :
            (thr[t].detfail /\ thr'[t] # thr[t])
                => /\ is_running' = is_running
                   /\ thr[t].pc = "publish"
                        => /\ latest_frame' = RawFrame(ReadOf(thr[t].frame))
                           /\ thr'[t].pc = "pace"]_vars

\* The detection of this cycle failed and the thread is inside the `with` of
\* line 106 with the frame as it was read, the service still active.
C20_Witness ==
    \E t \in Threads :
        /\ thr[t].detfail
        /\ thr[t].pc = "publish"
        /\ frame_lock = LoopOwner(t)
        /\ thr[t].frame = RawFrame(ReadOf(thr[t].frame))
        /\ is_active
        /\ \A c \in Callers : clr[c].pc = "idle"

\* C21: with no detector attached a frame goes from the read to the cache as
\* it is: the loop holds it unannotated up to its publish, the publish writes
\* exactly the frame that was read, and what a reader then gets from the cache
\* is that frame.
C21_NoDetectorPassesThrough ==
    /\ [](detector = "none"
            => /\ \A t \in Threads :
                    thr[t].frame # NoFrame
                        => thr[t].frame = RawFrame(ReadOf(thr[t].frame))
               /\ latest_frame # NoFrame
                    => latest_frame = RawFrame(ReadOf(latest_frame))
               /\ \A s \in Sessions :
                    ses[s].pc = "encode"
                        => ses[s].frame = RawFrame(ReadOf(ses[s].frame)))
    /\ [][\A t \in Threads :
            (detector = "none" /\ thr[t].pc = "read" /\ thr'[t].frame # NoFrame)
                => /\ thr'[t].frame = RawFrame(delivered')
                   /\ thr'[t].pc = "lock"]_vars
    /\ [][\A t \in Threads :
            (detector = "none" /\ thr[t].pc = "publish" /\ thr'[t].pc = "pace")
                => latest_frame' = thr[t].frame]_vars

\* No detector, a cycle has published the frame it read and a session has
\* read it back from the cache.
C21_Witness ==
    /\ detector = "none"
    /\ latest_frame # NoFrame
    /\ latest_frame = RawFrame(ReadOf(latest_frame))
    /\ \E s \in Sessions : ses[s].pc = "encode" /\ ses[s].frame = latest_frame

\* C22: a session that has emitted a chunk and goes on goes into its pacing
\* suspension first: its next step out of the yield is the sleep, not the next
\* read; and a step of one session leaves every other session where it was.
C22_ChunkThenPause ==
    /\ [][\A s \in Sessions :
            (ses[s].pc = "yielded" /\ ses'[s].pc \notin {"yielded", "closed"})
                => ses'[s].pc = "sleep"]_vars
    /\ [][\A s, r \in Sessions :
            (s # r /\ ses'[s] # ses[s]) => ses'[r] = ses[r]]_vars

\* C23: nothing a session does, ending and failing included, changes the run
\* flag, the source, a loop thread, the cache slot or another session, and a
\* session that is not inside its read does not own the lock the others need;
\* nothing a loop thread does, failing and ending included, changes a session,
\* and a slot that holds a frame is never emptied, so a loop that ends sends no
\* streaming session down the path of the empty cache.
C23_FailuresStayLocal ==
    /\ [][\A s \in Sessions :
            ses'[s] # ses[s]
                => /\ is_running' = is_running
                   /\ cap' = cap
                   /\ thr' = thr
                   /\ latest_frame' = latest_frame
                   /\ \A r \in Sessions \ {s} : ses'[r] = ses[r]]_vars
    /\ [](\A s \in Sessions :
            ses[s].pc \in {"closed", "ended", "backoff", "sleep", "yielded"}
                => frame_lock # SessOwner(s))
    /\ [][thr' # thr => ses' = ses]_vars
    /\ [][latest_frame # NoFrame => latest_frame' # NoFrame]_vars

\* One session has ended on an encode failure; the capture is still running
\* with its frame cached and the other session has emitted a chunk.
C23_Witness ==
    /\ ses["s"].pc = "ended" /\ ses["s"].encfail
    /\ ses["r"].pc = "yielded"
    /\ is_running
    /\ latest_frame # NoFrame
    /\ \E t \in Threads : InLoop(t)

\* C24: at any moment at most one thread is inside the capture loop.
C24_OneLoopThread ==
    Cardinality({t \in Threads : InLoop(t)}) <= 1

\* C25: when stop() executes its release no loop thread is alive any more, so
\* the source is never released under a cycle that reads or is about to read.
C25_ReleaseAfterLoopExit ==
    [][\A c \in Callers :
         (clr[c].pc = "stop_release" /\ cap' = "released" /\ clr'[c] # clr[c])
             => \A t \in Threads : ~IsAlive(t)]_vars

\* C26: with every call returned, the run flag goes from true to false only by
\* the loop of the thread the last start() created coming to its end; a thread
\* of an earlier start() never takes the flag down.
C26_OldLoopLeavesFlag ==
    [][(is_running /\ ~is_running' /\ \A c \in Callers : clr[c].pc = "idle")
          => /\ capture_thread # NoThread
             /\ thr[capture_thread].pc = "exit"
             /\ thr'[capture_thread].pc = "done"]_vars

\* The flag is down and no start() is under way / no thread is alive and the
\* flag is down.
StopSignalled == ~is_running /\ \A c \in Callers : clr[c].pc \notin StartPcs
Quiet == ~is_running /\ \A t \in Threads : ~IsAlive(t)

\* C27: once the flag is down, with the loop threads scheduled fairly, every
\* loop thread comes to its end and the service is inactive, unless a start()
\* comes in first; from then on, until a start() comes in, it stays so and the
\* cache slot is not written any more.
C27_StopEndsLoop ==
    /\ StopSignalled
         ~> (Quiet \/ \E c \in Callers : clr[c].pc \in StartPcs)
    /\ [][Quiet => (Quiet' \/ \E c \in Callers : clr[c].pc \in StartPcs)]_vars
    /\ [][Quiet => latest_frame' = latest_frame]_vars

\* stop() was called on a running capture and has returned; the thread that
\* was publishing has ended and the service is inactive.
C27_Witness ==
    /\ cap = "released"
    /\ \A c \in Callers : clr[c].pc = "idle"
    /\ Quiet
    /\ latest_frame # NoFrame
    /\ thr[1].pc = "done" /\ ~thr[1].err /\ ~thr[1].failed

\* C28: a call of stop() comes back to its caller whatever the loop threads
\* do, and when it comes back the flag is down.
C28_StopReturns ==
    /\ \A c \in Callers :
          clr[c].pc \in StopPcs ~> clr[c].pc \notin StopPcs
    /\ [][\A c \in Callers :
            (clr[c].pc \in StopPcs /\ clr'[c].pc \notin StopPcs)
                => ~is_running']_vars

\* stop() has returned to the /stop handler through the timeout of its join:
\* the loop thread is still inside its detect, the flag is down.
C28_Witness ==
    \E c \in Callers, t \in Threads :
        /\ clr[c].pc = "stop_reply"
        /\ thr[t].pc = "detect"
        /\ cap = "released"
        /\ ~is_running

\* C29: the cache slot is empty whenever a loop thread is started, it changes
\* only by the publish of a cycle, which puts that cycle's frame in it, every
\* other step of a cycle (a failed or raised read included) leaves it as it
\* is, and it holds no frame or one frame.
C29_SlotLifecycle ==
    /\ [][\A t \in Threads :
            (thr[t].pc = "created" /\ thr'[t].pc = "test")
                => latest_frame = NoFrame]_vars
    /\ [][latest_frame' # latest_frame
            => \E t \in Threads :
                 /\ thr[t].pc = "publish" /\ thr'[t].pc = "pace"
                 /\ latest_frame' = thr[t].frame
                 /\ ReadOf(thr[t].frame) \in 1..delivered]_vars
    /\ [](latest_frame = NoFrame \/ Len(latest_frame) = Len(RawFrame(1)))

\* C30: the step at which a cycle meets an exception takes the thread to the
\* end of its loop and gives back the lock if it held it; it changes no
\* caller, no session, not the slot, the source or the flag; the thread then
\* only writes the flag down and ends; and no call of start() or stop() made
\* by the application ends in an exception.
C30_CycleFailuresStayInLoop ==
    /\ [][\A t \in Threads :
            (~thr[t].err /\ thr'[t].err)
                => /\ thr'[t].pc = "exit"
                   /\ frame_lock' # LoopOwner(t)
                   /\ clr' = clr /\ ses' = ses
                   /\ latest_frame' = latest_frame
                   /\ cap' = cap /\ is_running' = is_running]_vars
    /\ [][\A t \in Threads :
            (thr[t].err /\ thr'[t] # thr[t])
                => /\ thr[t].pc = "exit" /\ thr'[t].pc = "done"
                   /\ ~is_running'
                   /\ clr' = clr /\ ses' = ses
                   /\ latest_frame' = latest_frame /\ cap' = cap]_vars
    /\ [](\A c \in Callers :
            clr[c].pc # "route_failed" /\ clr[c].message # "500")

\* A loop has ended on an exception: the flag is down, the lock is free, the
\* frame published before is still cached, and the application has answered
\* its requests as usual.
C30_Witness ==
    /\ \E t \in Threads : thr[t].err /\ thr[t].pc = "done"
    /\ ~is_running
    /\ frame_lock = Free
    /\ latest_frame # NoFrame
    /\ \E c \in Callers :
          clr[c].pc = "idle" /\ clr[c].message = "Video capture started"

\* C31: the sleep of a cycle is the frame interval less the elapsed time when
\* that is positive and nothing otherwise, it lies between 0 and the frame
\* interval and counts from the start of that cycle alone; and every cycle
\* that goes round to the next while test, one whose read failed on a live
\* source included, has lasted a frame interval at least.
C31_PacedEveryCycle ==
    /\ [][\A t \in Threads :
            (thr[t].pc = "pace" /\ thr'[t].pc = "test")
                => /\ thr'[t].elapsed - thr[t].elapsed
                        = IF thr[t].elapsed < FrameTime
                            THEN FrameTime - thr[t].elapsed ELSE 0
                   /\ thr'[t].elapsed - thr[t].elapsed \in 0..FrameTime]_vars
    /\ [][\A t \in Threads :
            (thr[t].pc = "test" /\ thr'[t].pc = "read")
                => thr'[t].elapsed = 0]_vars
    /\ [][\A t \in Threads :
            (InCycle(t) /\ thr'[t].pc = "test")
                => thr'[t].elapsed >= FrameTime]_vars

\* C32: a read returns the frame of the last publish completed before it took
\* the lock, whole; within one session the place of the frame received in the
\* order of the publishes never goes down; and no session holds a frame of a
\* publish that has not happened.
C32_ReadsFollowPublishOrder ==
    /\ [][\A s \in DOMAIN hist.got :
            (ses[s].pc = "copy2" /\ ses'[s].pc = "encode")
                => /\ hist.order # << >>
                   /\ ReadOf(ses'[s].frame) = hist.order[Len(hist.order)]
                   /\ ses'[s].frame = latest_frame
                   /\ hist'.got[s] = Len(hist.order)]_vars
    /\ [][\A s \in DOMAIN hist.got :
            (ses[s].pc # "closed" /\ ses'[s].pc # "closed")
                => hist'.got[s] >= hist.got[s]]_vars
    /\ [](\A s \in DOMAIN hist.got : hist.got[s] <= Len(hist.order))

\* A session in its second iteration or later, with a loop running, has just
\* been handed the second publish.
C32_Witness ==
    /\ is_running
    /\ Len(hist.order) = 2
    /\ ses["s"].pc = "encode" /\ ses["s"].iter >= 2
    /\ hist.got["s"] = 2
    /\ ReadOf(ses["s"].frame) = hist.order[2]

\* What an iteration of a generator was given, and whether it is over: it
\* handed out a chunk, or left through the except clause.
IterationInputs(s) == << ses[s].iter, ses[s].none >>
IterationOver(s) == ses[s].pc \in {"yielded", "ended", "backoff"}

\* C33: a generate_frames() session and a generate_frames_async() session
\* whose iteration of the same number was given the same read and the same
\* placeholder outcome, and met no failure of the encoder, are in the same
\* position when that iteration is over: both have handed out a chunk, or
\* both have ended, or both go on.
C33_GeneratorsEquivalent ==
    \A s, r \in Sessions :
        ( /\ ses[s].kind = "sync" /\ ses[r].kind = "async"
          /\ IterationOver(s) /\ IterationOver(r)
          /\ ~ses[s].encfail /\ ~ses[r].encfail
          /\ IterationInputs(s) = IterationInputs(r) )
            => /\ (ses[s].pc = "ended") = (ses[r].pc = "ended")
               /\ (ses[s].pc = "yielded") = (ses[r].pc = "yielded")

\* C34: the status query looks at the slot; when it found a frame there its
\* answer carries the shape of the frame the slot holds, and when it found
\* the slot empty it carries (height, width, 3), with the run-state and the
\* source; the query waits for no lock and never ends in an error, wherever
\* the loop threads stand.
C34_StatusReportsShape ==
    /\ [][\A c \in Callers :
            (clr[c].pc = "status_check" /\ clr'[c] # clr[c])
                => /\ clr'[c].pc = "status_shape"
                   /\ clr'[c].seen = (latest_frame # NoFrame)]_vars
    /\ [][\A c \in Callers :
            (clr[c].pc = "status_shape" /\ clr'[c] # clr[c])
                => /\ clr'[c].pc = "status_reply"
                   /\ clr[c].seen => latest_frame # NoFrame
                   /\ clr'[c].reply =
                        << clr[c].reply[1],
                           IF clr[c].seen
                             THEN FrameShape(latest_frame) ELSE DefaultShape,
                           source >>]_vars
    /\ [](\A c \in Callers :
            /\ clr[c].pc \in {"status_check", "status_shape"} => ~StatusBlocked
            /\ clr[c].pc # "route_failed" /\ clr[c].message # "500")

\* A status query has answered with the shape of the cached frame while a
\* loop thread held the lock for its next publish.
C34_Witness ==
    /\ clr["a"].pc = "status_reply"
    /\ latest_frame # NoFrame
    /\ clr["a"].reply = << TRUE, FrameShape(latest_frame), source >>
    /\ \E t \in Threads : frame_lock = LoopOwner(t) /\ thr[t].pc = "publish"

====
